---- MODULE Spec2Model ----
(***************************************************************************)
(* Model of the Oxford English Dictionary scrape-and-convert pipeline:     *)
(*   oed-word-parser.py   fetch_content, get_parsed_content,               *)
(*                        start_parsing, save_parsed_content               *)
(*   src/convert-data.py  populate_words                                   *)
(* Text is modelled as sequences of one-character strings, so that         *)
(* formatting a log line and reading it back with the csv reader are       *)
(* computed character by character.                                        *)
(***************************************************************************)
EXTENDS Integers, Sequences, FiniteSets, TLC

\* ------------------------------------------------------------------ bounds

\* Largest --max-pages value explored (0 .. MaxPagesBound).
MaxPagesBound == 2
\* Largest --max-retries value explored (0 .. MaxRetriesBound).
MaxRetriesBound == 2
\* Largest --starting-page value explored (1 .. MaxStartingPage).
MaxStartingPage == 2
\* Largest number of result items on the page fed to the converter.
MaxItems == 3
\* Largest length of the snippet text of the page fed to the extraction.
MaxText == 4

\* ------------------------------------------------------------- text helpers

\* A value that may be None (a fetch result, a parse result, a result item's
\* field that item.find(...) does not find) is a sequence of length 0 or 1.
None == <<>>
Some(x) == <<x>>
Value(opt) == opt[1]

Whitespace == {" ", "\n"}

RECURSIVE LStrip(_)
LStrip(s) ==
    IF s # <<>> /\ Head(s) \in Whitespace THEN LStrip(Tail(s)) ELSE s

RECURSIVE RStrip(_)
RStrip(s) ==
    IF s # <<>> /\ s[Len(s)] \in Whitespace
    THEN RStrip(SubSeq(s, 1, Len(s) - 1))
    ELSE s

\* str.strip()
Strip(s) == RStrip(LStrip(s))

\* str.replace(old, new) for one-character old and new
Replace(s, old, new) == [k \in 1..Len(s) |-> IF s[k] = old THEN new ELSE s[k]]

Digits == <<"0", "1", "2", "3", "4", "5", "6", "7", "8", "9">>

RECURSIVE IntToStr(_)
\* f'{current_page}' for a non-negative integer
IntToStr(n) ==
    IF n < 10 THEN <<Digits[n + 1]>>
    ELSE IntToStr(n \div 10) \o <<Digits[(n % 10) + 1]>>

\* ------------------------------------------------------------ page markup

\* A page's markup is modelled by what soup.find_all('div',
\* class_='resultsSetItemBody') yields: a sequence of result items, each with
\* the text of its span.hw, div.snippet and span.ps (Some(text)), or None
\* where item.find(...) finds no such element.
Item(hw, snippet, ps) == [hw |-> hw, snippet |-> snippet, ps |-> ps]
Full(hw, snippet, ps) == Item(Some(hw), Some(snippet), Some(ps))

Run == <<"r", "u", "n">>
Ab == <<"a", "b">>
SnQuoted == <<" ", "a", "\"", "b", "\"">>
SnComma == <<"g", ",", "o">>
SnEmpty == <<>>
PsVerb == <<"v", ".">>
PsTwo == <<"v", ".", ",", " ", "n", ".">>
PsEmpty == <<>>

\* Two complete result items.
PageTwo == <<Full(Run, SnQuoted, PsVerb), Full(Ab, SnComma, PsTwo)>>
\* A page past the end of the results: no result item.
PageEmpty == <<>>
\* One item with a snippet only: 0 words, 1 snippet, 0 parts of speech.
PageSnippetOnly == <<Item(None, Some(SnComma), None)>>
\* The second item lacks snippet and part of speech: 2 words, 1, 1.
PageShort == <<Full(Run, SnQuoted, PsVerb), Item(Some(Ab), None, None)>>
\* One item lacks its headword, the other is complete: 1 word, 2, 2.
PageNoHeadword ==
    <<Item(None, Some(SnComma), Some(PsTwo)), Full(Run, SnQuoted, PsVerb)>>

\* The first item has a headword only, the second a snippet and a part of
\* speech only: 1 word, 1 snippet, 1 part of speech.
PageCrossed ==
    <<Item(Some(Ab), None, None), Item(None, Some(SnComma), Some(PsVerb))>>

Markups ==
    {PageTwo, PageEmpty, PageSnippetOnly, PageShort, PageNoHeadword,
     PageCrossed}

\* --------------------------------------------------------------- extraction

HasWord(item) == item.hw # None
HasSnippet(item) == item.snippet # None
HasPs(item) == item.ps # None

\* Mutant of quote_snippet: the double quotes inside the text are kept.
quote_snippet_NoReplace(text) == <<"\"">> \o Strip(text) \o <<"\"">>

\* snippet_div.get_text().strip().replace('"', "'") wrapped as f'"{snippet}"'
quote_snippet(text) == <<"\"">> \o Replace(Strip(text), "\"", "'") \o <<"\"">>

\* The three lists the loop over results_set_items builds.
all_words(items) ==
    LET found == SelectSeq(items, HasWord)
    IN  [k \in 1..Len(found) |-> Strip(Value(found[k].hw))]

all_snippets(items) ==
    LET found == SelectSeq(items, HasSnippet)
    IN  [k \in 1..Len(found) |-> quote_snippet(Value(found[k].snippet))]

all_parts_of_speech(items) ==
    LET found == SelectSeq(items, HasPs)
    IN  [k \in 1..Len(found) |-> Strip(Value(found[k].ps))]

\* The length check of get_parsed_content: TRUE when the result is rejected.
length_mismatch(nw, ns, np) == nw # ns /\ ns # np

\* content is None or Some(page); the result is None or Some(three lists).
get_parsed_content(content) ==
    IF content = None THEN None
    ELSE LET page == Value(content)
         IN  IF length_mismatch(Len(all_words(page)), Len(all_snippets(page)),
                                Len(all_parts_of_speech(page)))
             THEN None
             ELSE Some([words |-> all_words(page),
                        snippets |-> all_snippets(page),
                        parts_of_speech |-> all_parts_of_speech(page)])

\* ---------------------------------------------------------------- log lines

Comma == <<",">>
Tildes == <<"~", "~">>

\* f'{current_page}{delimiter}{word}{delimiter}{snippet}{delimiter}{pos}\n'
format_line(page, word, snippet, pos, delim) ==
    IntToStr(page) \o delim \o word \o delim \o snippet \o delim \o pos
        \o <<"\n">>

\* save_parsed_content raises IndexError when parsed_snippets or
\* parsed_parts_of_speech is shorter than parsed_words: its loop indexes all
\* three lists by the positions of parsed_words.
save_raises(parsed) ==
    \/ Len(parsed.snippets) < Len(parsed.words)
    \/ Len(parsed.parts_of_speech) < Len(parsed.words)

\* The lines save_parsed_content appends when it does not raise.
save_lines(parsed, page, delim) ==
    [k \in 1..Len(parsed.words) |->
        format_line(page, parsed.words[k], parsed.snippets[k],
                    parsed.parts_of_speech[k], delim)]

\* Mutant of append_lines: the file is opened with mode 'w'.
append_lines_Truncate(file, lines) == lines

\* with open(output_file, 'a') as f: f.writelines(lines)
append_lines(file, lines) == file \o lines

\* -------------------------------------------------------------------- state

VARIABLES
    \* arguments of start_parsing
    starting_page, max_pages, max_retries, delimiter,
    \* start_parsing: position, locals, and the output file (a list of lines)
    pc, current_page, i, content, log,
    log0,           \* the output file as it was before the run
    \* fetch_content: position and the stack of its activation frames, each
    \* with its retry argument and its local num_retries (None until set)
    fpc, frames,
    \* what has been observed of the run
    fetchCalls,     \* page of every fetch_content call made by start_parsing
    fetchResults,   \* for each of those calls that returned: TRUE iff not None
    fetched,        \* what each of those calls returned: None or Some(page)
    attemptLog,     \* status of every request of the fetch in progress or last
    callSleeps,     \* time.sleep(error_delay) calls during that fetch
    requestSleeps,  \* time.sleep(request_delay) calls of the run
    saveCalls,      \* page of every save_parsed_content call
    \* populate_words of convert-data.py: position, the rows of the csv
    \* reader and the next one to read, the words dict, the printed counts
    lpc, rows, row_index, words, report

crawlVars == <<starting_page, max_pages, max_retries, delimiter, pc,
               current_page, i, content, log, log0, fpc, frames,
               fetchCalls, fetchResults, fetched, attemptLog, callSleeps,
               requestSleeps, saveCalls>>

loadVars == <<lpc, rows, row_index, words, report>>

vars == <<crawlVars, loadVars>>

\* A line left in the output file by an earlier run.
OldLine == format_line(1, Ab, quote_snippet(SnEmpty), PsVerb, Comma)

\* ------------------------------------------------------------ fetch_content

Ok == "200"
BadStatus == "non-200"
TransportError == "RequestException"
Statuses == {Ok, BadStatus, TransportError}

Frame(retry, num_retries) == [retry |-> retry, num_retries |-> num_retries]

\* Mutant of should_retry: only the counter decides.
should_retry_IgnoreFlag(retry, num_retries, retries_allowed) ==
    num_retries <= retries_allowed

\* `not retry and num_retries <= max_retries`
should_retry(retry, num_retries, retries_allowed) ==
    ~retry /\ num_retries <= retries_allowed

\* Mutant of fetch_step: a transport error is handled like a bad status.
fetch_step_RetryOnError(status, retry, retries_allowed) ==
    IF status = Ok THEN "text"
    ELSE IF should_retry(retry, 0, retries_allowed) THEN "retry"
    ELSE "none"

\* What one activation of fetch_content does with the outcome of its request,
\* given its retry argument and max_retries: "text" (return response.text),
\* "retry" (sleep error_delay and call fetch_content again with retry=True)
\* or "none" (return None). num_retries is 0 when the status is tested.
fetch_step(status, retry, retries_allowed) ==
    IF status = TransportError THEN "none"
    ELSE IF status = Ok THEN "text"
    ELSE IF should_retry(retry, 0, retries_allowed) THEN "retry"
    ELSE "none"

\* fetch_content(page, error_delay, max_retries) as called by start_parsing.
CallFetch(page) ==
    /\ fetchCalls' = Append(fetchCalls, page)
    /\ fpc' = "request"
    /\ frames' = <<Frame(FALSE, None)>>
    /\ attemptLog' = <<>>
    /\ callSleeps' = 0

\* The innermost activation issues session.get and handles its outcome.
Request ==
    /\ fpc = "request"
    /\ \E status \in Statuses, page \in Markups :
        LET top == frames[Len(frames)]
            step == fetch_step(status, top.retry, max_retries)
        IN  /\ attemptLog' = Append(attemptLog, status)
            /\ IF step = "retry"
               THEN /\ callSleeps' = callSleeps + 1
                    /\ frames' = [frames EXCEPT ![Len(frames)].num_retries =
                                                    Some(0 + 1)]
                                 \o <<Frame(TRUE, None)>>
                    /\ UNCHANGED <<fpc, content, fetchResults, fetched>>
               ELSE /\ content' = IF step = "text" THEN Some(page) ELSE None
                    /\ fetchResults' = Append(fetchResults, step = "text")
                    /\ fetched' = Append(fetched, content')
                    /\ fpc' = "returned"
                    /\ frames' = <<>>
                    /\ UNCHANGED callSleeps
    /\ UNCHANGED loadVars
    /\ UNCHANGED <<starting_page, max_pages, max_retries, delimiter, log0, pc,
                   current_page, i, log, fetchCalls, requestSleeps, saveCalls>>

\* ------------------------------------------------------------ start_parsing

\* Mutant of next_page: the cursor is not advanced.
next_page_Same(page) == page

\* current_page = current_page + 1
next_page(page) == page + 1

\* current_page = starting_page; content = fetch_content(starting_page, ...)
Start ==
    /\ pc = "start"
    /\ current_page' = starting_page
    /\ CallFetch(starting_page)
    /\ pc' = "first_fetch"
    /\ UNCHANGED loadVars
    /\ UNCHANGED <<starting_page, max_pages, max_retries, delimiter, log0, fetched, i,
                   content, log, fetchResults, requestSleeps, saveCalls>>

\* Mutant of FirstFetched: the loop is entered whatever the first fetch gave.
FirstFetched_NoAbort ==
    /\ pc = "first_fetch"
    /\ fpc = "returned"
    /\ pc' = "loop"
    /\ fpc' = "idle"
    /\ UNCHANGED loadVars
    /\ UNCHANGED <<starting_page, max_pages, max_retries, delimiter, log0, fetched,
                   current_page, i, content, log, frames, fetchCalls,
                   fetchResults, attemptLog, callSleeps, requestSleeps,
                   saveCalls>>

\* `if content is None: ... return`, else enter the for loop.
FirstFetched ==
    /\ pc = "first_fetch"
    /\ fpc = "returned"
    /\ pc' = IF content = None THEN "aborted" ELSE "loop"
    /\ fpc' = "idle"
    /\ UNCHANGED loadVars
    /\ UNCHANGED <<starting_page, max_pages, max_retries, delimiter, log0, fetched,
                   current_page, i, content, log, frames, fetchCalls,
                   fetchResults, attemptLog, callSleeps, requestSleeps,
                   saveCalls>>

\* Mutant of LoopBody: a page that was not fetched ends the crawl.
LoopBody_StopOnNone ==
    /\ pc = "loop"
    /\ fpc \in {"idle", "returned"}
    /\ i < max_pages
    /\ LET parsed_content == get_parsed_content(content)
       IN  IF content = None
           THEN /\ pc' = "done"
                /\ fpc' = "idle"
                /\ UNCHANGED <<current_page, i, log, frames, fetchCalls,
                               attemptLog, callSleeps, requestSleeps,
                               saveCalls>>
           ELSE IF parsed_content # None /\ save_raises(Value(parsed_content))
           THEN /\ pc' = "crashed"
                /\ saveCalls' = Append(saveCalls, current_page)
                /\ fpc' = "idle"
                /\ UNCHANGED <<current_page, i, log, frames, fetchCalls,
                               attemptLog, callSleeps, requestSleeps>>
           ELSE /\ IF parsed_content = None
                   THEN UNCHANGED <<log, saveCalls>>
                   ELSE /\ log' = append_lines(log,
                                        save_lines(Value(parsed_content),
                                                   current_page, delimiter))
                        /\ saveCalls' = Append(saveCalls, current_page)
                /\ current_page' = next_page(current_page)
                /\ requestSleeps' = requestSleeps + 1
                /\ CallFetch(current_page')
                /\ i' = i + 1
                /\ pc' = "loop"
    /\ UNCHANGED loadVars
    /\ UNCHANGED <<starting_page, max_pages, max_retries, delimiter, log0,
                   fetched, content, fetchResults>>

\* One iteration of `for i in range(max_pages)`: parse, save or skip,
\* advance, sleep, fetch the next page. An IndexError raised by
\* save_parsed_content ends the program before anything is written.
LoopBody ==
    /\ pc = "loop"
    /\ fpc \in {"idle", "returned"}
    /\ i < max_pages
    /\ LET parsed_content == get_parsed_content(content)
       IN  IF parsed_content # None /\ save_raises(Value(parsed_content))
           THEN /\ pc' = "crashed"
                /\ saveCalls' = Append(saveCalls, current_page)
                /\ fpc' = "idle"
                /\ UNCHANGED <<current_page, i, log, frames, fetchCalls,
                               attemptLog, callSleeps, requestSleeps>>
           ELSE /\ IF parsed_content = None
                   THEN UNCHANGED <<log, saveCalls>>
                   ELSE /\ log' = append_lines(log,
                                        save_lines(Value(parsed_content),
                                                   current_page, delimiter))
                        /\ saveCalls' = Append(saveCalls, current_page)
                /\ current_page' = next_page(current_page)
                /\ requestSleeps' = requestSleeps + 1
                /\ CallFetch(current_page')
                /\ i' = i + 1
                /\ pc' = "loop"
    /\ UNCHANGED loadVars
    /\ UNCHANGED <<starting_page, max_pages, max_retries, delimiter, log0, fetched, content,
                   fetchResults>>

\* range(max_pages) is exhausted: start_parsing returns.
LoopExit ==
    /\ pc = "loop"
    /\ fpc \in {"idle", "returned"}
    /\ i = max_pages
    /\ pc' = "done"
    /\ fpc' = "idle"
    /\ UNCHANGED loadVars
    /\ UNCHANGED <<starting_page, max_pages, max_retries, delimiter, log0, fetched,
                   current_page, i, content, log, frames, fetchCalls,
                   fetchResults, attemptLog, callSleeps, requestSleeps,
                   saveCalls>>

\* --------------------------------------------------------------- csv.reader

\* csv.reader(file) with the default dialect (delimiter ',', quotechar '"',
\* doublequote, not strict) is a state machine fed one character at a time.
\* Its state: the parser state, the field being built, and the fields of the
\* record so far. The file is read line by line: every entry of the log is
\* one line, ended by its only line-end character.
Reader(state, fld, row) == [state |-> state, fld |-> fld, row |-> row]

\* Before the first character of a record.
ReaderStart == Reader("start_record", <<>>, <<>>)

\* The field ends and another one starts.
EndField(st) == Reader("start_field", <<>>, Append(st.row, st.fld))
\* The field and the record end.
EndRecord(st) == Reader("start_record", <<>>, Append(st.row, st.fld))
\* The character is added to the field.
AddChar(st, c, state) == Reader(state, Append(st.fld, c), st.row)

\* One character. A line end closes the record, except inside a quoted
\* field, where it is part of the field; an empty line is an empty record.
csv_char(st, c) ==
    CASE st.state = "start_record" ->
            IF c = "\n" THEN ReaderStart
            ELSE IF c = "\"" THEN Reader("in_quoted_field", <<>>, <<>>)
            ELSE IF c = "," THEN EndField(ReaderStart)
            ELSE AddChar(ReaderStart, c, "in_field")
      [] st.state = "start_field" ->
            IF c = "\n" THEN EndRecord(st)
            ELSE IF c = "\"" THEN Reader("in_quoted_field", st.fld, st.row)
            ELSE IF c = "," THEN EndField(st)
            ELSE AddChar(st, c, "in_field")
      [] st.state = "in_field" ->
            IF c = "\n" THEN EndRecord(st)
            ELSE IF c = "," THEN EndField(st)
            ELSE AddChar(st, c, "in_field")
      [] st.state = "in_quoted_field" ->
            IF c = "\"" THEN Reader("quote_in_quoted_field", st.fld, st.row)
            ELSE AddChar(st, c, "in_quoted_field")
      [] st.state = "quote_in_quoted_field" ->
            IF c = "\"" THEN AddChar(st, c, "in_quoted_field")
            ELSE IF c = "," THEN EndField(st)
            ELSE IF c = "\n" THEN EndRecord(st)
            ELSE AddChar(st, c, "in_field")

RECURSIVE csv_feed(_, _, _)
\* The characters of one line, from position k.
csv_feed(st, line, k) ==
    IF k > Len(line) THEN st
    ELSE csv_feed(csv_char(st, line[k]), line, k + 1)

RECURSIVE csv_lines(_, _, _)
\* The records read from line n on. The reader takes lines until the parser
\* is back before a record, and then yields the record; the end of the file
\* closes a record that is still open.
csv_lines(st, lines, n) ==
    IF n > Len(lines)
    THEN IF st.state = "start_record" THEN <<>>
         ELSE <<Append(st.row, st.fld)>>
    ELSE LET fed == csv_feed(st, lines[n], 1)
         IN  IF fed.state = "start_record"
             THEN <<fed.row>> \o csv_lines(ReaderStart, lines, n + 1)
             ELSE csv_lines(fed, lines, n + 1)

\* The rows csv.reader yields for a file holding the given lines.
csv_reader(lines) == csv_lines(ReaderStart, lines, 1)

\* ----------------------------------------------------------- populate_words

Letters ==
    {"a", "b", "c", "d", "e", "f", "g", "h", "i", "j", "k", "l", "m", "n",
     "o", "p", "q", "r", "s", "t", "u", "v", "w", "x", "y", "z",
     "A", "B", "C", "D", "E", "F", "G", "H", "I", "J", "K", "L", "M", "N",
     "O", "P", "Q", "R", "S", "T", "U", "V", "W", "X", "Y", "Z"}

CombForm == <<"c", "o", "m", "b", ".", " ", "f", "o", "r", "m", ".">>

\* s[k..] starts with lit
StartsWithAt(s, k, lit) ==
    /\ k + Len(lit) - 1 <= Len(s)
    /\ SubSeq(s, k, k + Len(lit) - 1) = lit

RECURSIVE AlphaRunEnd(_, _)
\* index of the last character of the run of letters that starts at s[k]
AlphaRunEnd(s, k) ==
    IF k < Len(s) /\ s[k + 1] \in Letters THEN AlphaRunEnd(s, k + 1) ELSE k

RECURSIVE findall_parts(_, _)
\* re.findall(r'comb[.] form[.]|[A-Za-z]{1,}', s), from position k
findall_parts(s, k) ==
    IF k > Len(s) THEN <<>>
    ELSE IF StartsWithAt(s, k, CombForm)
    THEN <<CombForm>> \o findall_parts(s, k + Len(CombForm))
    ELSE IF s[k] \in Letters
    THEN <<SubSeq(s, k, AlphaRunEnd(s, k))>>
             \o findall_parts(s, AlphaRunEnd(s, k) + 1)
    ELSE findall_parts(s, k + 1)

RECURSIVE Join(_, _)
\* sep.join(parts)
Join(sep, parts) ==
    IF parts = <<>> THEN <<>>
    ELSE IF Len(parts) = 1 THEN parts[1]
    ELSE parts[1] \o sep \o Join(sep, Tail(parts))

Pipe == <<"|">>

\* "|".join(speech_parts): the parts found by the pattern, each stripped (the
\* superscript digits the code then removes can occur in no part the pattern
\* matches).
clean_parts_of_speech(parts_of_speech) ==
    LET individual_parts == findall_parts(parts_of_speech, 1)
    IN  Join(Pipe, [k \in 1..Len(individual_parts) |->
                        Strip(individual_parts[k])])

\* Word(text, snippet, parts_of_speech)
Word(text, snippet, parts_of_speech) ==
    [text |-> text, snippet |-> snippet, parts_of_speech |-> parts_of_speech]

\* The words dict is the sequence of its values in insertion order, keyed by
\* their text.
dict_has(d, text) == \E k \in 1..Len(d) : d[k].text = text
dict_index(d, text) == CHOOSE k \in 1..Len(d) : d[k].text = text
\* d[text] = word
dict_set(d, text, word) ==
    IF dict_has(d, text) THEN [d EXCEPT ![dict_index(d, text)] = word]
    ELSE Append(d, word)

\* Mutant of merge_snippet: the new snippet is put before the stored one.
merge_snippet_Prepend(d, text, snippet) ==
    [d EXCEPT ![dict_index(d, text)].snippet = snippet \o Pipe \o @]

\* words[text].snippet += '|' + snippet
merge_snippet(d, text, snippet) ==
    [d EXCEPT ![dict_index(d, text)].snippet = @ \o Pipe \o snippet]

\* Mutant of populate_row: a row with more than four fields is not skipped,
\* its first four fields are used.
populate_row_NoLengthCheck(d, row) ==
    IF Len(row) < 4 THEN d
    ELSE LET text == row[2]
             snippet == row[3]
             parts_of_speech == row[4]
         IN  IF dict_has(d, text) THEN merge_snippet(d, text, snippet)
             ELSE dict_set(d, text,
                           Word(text, snippet,
                                clean_parts_of_speech(parts_of_speech)))

\* The body of `for row in reader` for one row.
populate_row(d, row) ==
    IF Len(row) # 4 THEN d
    ELSE LET text == row[2]
             snippet == row[3]
             parts_of_speech == row[4]
         IN  IF dict_has(d, text) THEN merge_snippet(d, text, snippet)
             ELSE dict_set(d, text,
                           Word(text, snippet,
                                clean_parts_of_speech(parts_of_speech)))

HasNoSnippet(word) == word.snippet = <<>>
HasNoPartsOfSpeech(word) == word.parts_of_speech = <<>>

\* Mutant of report_counts: no_parts_of_speech filters on the snippet too.
report_counts_CopyPaste(d) ==
    <<Len(d), Len(SelectSeq(d, HasNoSnippet)), Len(SelectSeq(d, HasNoSnippet))>>

\* The three numbers of the final print: len(words), len(no_snippet),
\* len(no_parts_of_speech).
report_counts(d) ==
    <<Len(d), Len(SelectSeq(d, HasNoSnippet)),
      Len(SelectSeq(d, HasNoPartsOfSpeech))>>

\* save_parsed_content(output_file, parsed_content, current_page, delimiter)
\* for the one extracted page the converter's input is made of.
SavePage ==
    /\ lpc = "save"
    /\ LET parsed_content == get_parsed_content(content)
       IN  /\ parsed_content # None
           /\ ~save_raises(Value(parsed_content))
           /\ log' = append_lines(log, save_lines(Value(parsed_content),
                                                  current_page, delimiter))
    /\ saveCalls' = Append(saveCalls, current_page)
    /\ lpc' = "open"
    /\ UNCHANGED <<rows, row_index, words, report>>
    /\ UNCHANGED <<starting_page, max_pages, max_retries, delimiter, pc,
                   current_page, i, content, log0, fpc, frames, fetchCalls,
                   fetchResults, fetched, attemptLog, callSleeps,
                   requestSleeps>>

\* with open(input_file) as file: reader = csv.reader(file)
OpenInput ==
    /\ lpc = "open"
    /\ rows' = csv_reader(log)
    /\ row_index' = 1
    /\ lpc' = "rows"
    /\ UNCHANGED <<words, report>>
    /\ UNCHANGED crawlVars

\* One iteration of `for row in reader`.
ReadRow ==
    /\ lpc = "rows"
    /\ row_index <= Len(rows)
    /\ words' = populate_row(words, rows[row_index])
    /\ row_index' = row_index + 1
    /\ UNCHANGED <<lpc, rows, report>>
    /\ UNCHANGED crawlVars

\* The reader is exhausted: the counts are computed and printed.
Report ==
    /\ lpc = "rows"
    /\ row_index > Len(rows)
    /\ report' = Some(report_counts(words))
    /\ lpc' = "reported"
    /\ UNCHANGED <<rows, row_index, words>>
    /\ UNCHANGED crawlVars

\* Texts of the result items of the page given to the converter.
LoadWords == {Run, Ab}
\* <<snippet text, part-of-speech text>> of those items
LoadDetails ==
    {<<SnQuoted, PsVerb>>, <<SnComma, PsTwo>>, <<SnEmpty, PsEmpty>>,
     <<SnEmpty, PsVerb>>, <<SnComma, PsEmpty>>}
LoadItems == {Full(w, d[1], d[2]) : w \in LoadWords, d \in LoadDetails}
LoadPages == UNION {[1..n -> LoadItems] : n \in 0..MaxItems}

\* One page has been fetched; its extraction is saved with the chosen
\* delimiter to a new file, which convert-data.py then reads.
InitLoad ==
    /\ starting_page = 1
    /\ max_pages = 1
    /\ max_retries = 1
    /\ delimiter \in {Comma, Tildes}
    /\ pc = "loop"
    /\ current_page = starting_page
    /\ i = 0
    /\ content \in {Some(page) : page \in LoadPages}
    /\ log = <<>>
    /\ log0 = log
    /\ fpc = "returned"
    /\ frames = <<>>
    /\ fetchCalls = <<starting_page>>
    /\ fetchResults = <<TRUE>>
    /\ fetched = <<content>>
    /\ attemptLog = <<Ok>>
    /\ callSleeps = 0
    /\ requestSleeps = 0
    /\ saveCalls = <<>>
    /\ lpc = "save"
    /\ rows = <<>>
    /\ row_index = 0
    /\ words = <<>>
    /\ report = None

NextLoad ==
    \/ SavePage
    \/ OpenInput
    \/ ReadRow
    \/ Report

SpecLoad == InitLoad /\ [][NextLoad]_vars

\* ------------------------------------------------- read_file (oed-converter)

\* The body of `for row in reader` of read_file for one row: words is a
\* list, and every row of four fields appends a Word made of its fields as
\* they are.
read_file_row(ws, row) ==
    IF Len(row) # 4 THEN ws
    ELSE Append(ws, Word(row[2], row[3], row[4]))

\* The three numbers read_file prints: len(words), len(no_snippet),
\* len(no_parts_of_speech).
read_file_counts(ws) ==
    <<Len(ws), Len(SelectSeq(ws, HasNoSnippet)),
      Len(SelectSeq(ws, HasNoPartsOfSpeech))>>

\* with open(...) as file: reader = csv.reader(file)
read_file_Open ==
    /\ lpc = "open"
    /\ rows' = csv_reader(log)
    /\ row_index' = 1
    /\ lpc' = "legacy_rows"
    /\ UNCHANGED <<words, report>>
    /\ UNCHANGED crawlVars

\* One iteration of `for row in reader`.
read_file_Row ==
    /\ lpc = "legacy_rows"
    /\ row_index <= Len(rows)
    /\ words' = read_file_row(words, rows[row_index])
    /\ row_index' = row_index + 1
    /\ UNCHANGED <<lpc, rows, report>>
    /\ UNCHANGED crawlVars

\* The reader is exhausted: the counts are computed and printed.
read_file_Report ==
    /\ lpc = "legacy_rows"
    /\ row_index > Len(rows)
    /\ report' = Some(read_file_counts(words))
    /\ lpc' = "legacy_reported"
    /\ UNCHANGED <<rows, row_index, words>>
    /\ UNCHANGED crawlVars

\* The file one saved page makes is read by oed-converter.py.
NextLegacy ==
    \/ SavePage
    \/ read_file_Open
    \/ read_file_Row
    \/ read_file_Report

SpecLegacy == InitLoad /\ [][NextLegacy]_vars

\* ------------------------------------------------------------ the crawl

Init ==
    /\ starting_page \in 1..MaxStartingPage
    /\ max_pages \in 0..MaxPagesBound
    /\ max_retries \in 0..MaxRetriesBound
    /\ delimiter = Comma
    /\ pc = "start"
    /\ current_page = 0
    /\ i = 0
    /\ content = None
    /\ log \in {<<>>, <<OldLine>>}
    /\ log0 = log
    /\ fpc = "idle"
    /\ frames = <<>>
    /\ fetchCalls = <<>>
    /\ fetchResults = <<>>
    /\ fetched = <<>>
    /\ attemptLog = <<>>
    /\ callSleeps = 0
    /\ requestSleeps = 0
    /\ saveCalls = <<>>
    /\ lpc = "off"
    /\ rows = <<>>
    /\ row_index = 0
    /\ words = <<>>
    /\ report = None

Next ==
    \/ Start
    \/ Request
    \/ FirstFetched
    \/ LoopBody
    \/ LoopExit

Spec == Init /\ [][Next]_vars

\* =================================================================== claims

Last(seq) == seq[Len(seq)]
AllSucceeded == \A k \in 1..Len(fetchResults) : fetchResults[k]
FetchReturned == fpc = "returned"

\* C1: when every fetch succeeds, a run with max_pages >= 1 that reaches its
\* end has made exactly max_pages fetch_content calls, for the pages
\* starting_page, ..., starting_page + max_pages - 1 in that order.
C1_ExactlyMaxPagesFetches ==
    (pc = "done" /\ max_pages >= 1 /\ AllSucceeded)
        => fetchCalls = [k \in 1..max_pages |-> starting_page + k - 1]

\* C2: if the first fetch_content call returns None, start_parsing makes no
\* further fetch_content call, never calls save_parsed_content and leaves the
\* output file as it was.
C2_FirstFetchNoneAborts ==
    (Len(fetchResults) >= 1 /\ ~fetchResults[1])
        => /\ fetchCalls = <<starting_page>>
           /\ saveCalls = <<>>
           /\ log = log0
           /\ pc \in {"first_fetch", "aborted"}

C2_Witness ==
    /\ pc = "aborted"
    /\ fetchResults = <<FALSE>>
    /\ log0 = <<OldLine>>

\* C3: with max_retries = 2, a fetch whose first two requests return a
\* non-200 status issues a third request, and returns its content when that
\* request returns 200.
C3_ThirdAttemptIssued ==
    (/\ max_retries = 2
     /\ FetchReturned
     /\ Len(attemptLog) >= 2
     /\ attemptLog[1] = BadStatus
     /\ attemptLog[2] = BadStatus)
        => /\ Len(attemptLog) >= 3
           /\ attemptLog[3] = Ok => content # None

\* C4: for every page markup, get_parsed_content returns None or three lists
\* of equal length.
C4_EqualLengthsOrNone ==
    content # None =>
        LET parsed == get_parsed_content(content)
        IN  \/ parsed = None
            \/ /\ Len(Value(parsed).words) = Len(Value(parsed).snippets)
               /\ Len(Value(parsed).snippets)
                      = Len(Value(parsed).parts_of_speech)

\* C7: after a successful first fetch, the first later fetch_content call
\* that returns None is the last fetch_content call of the run.
C7_LaterNoneEndsCrawl ==
    \A k \in 2..Len(fetchResults) :
        ~fetchResults[k] => Len(fetchCalls) = k

\* C8: a fetch whose every request returns a non-200 status makes at most
\* max_retries retries (max_retries + 1 requests), sleeps error_delay before
\* each retry, and returns None.
C8_AtMostMaxRetries ==
    (FetchReturned /\ \A k \in 1..Len(attemptLog) : attemptLog[k] = BadStatus)
        => /\ Len(attemptLog) <= max_retries + 1
           /\ callSleeps = Len(attemptLog) - 1
           /\ content = None

\* C9: a request that raises a transport-level exception, on the first
\* attempt or on the retry, is the last request of its fetch: fetch_content
\* returns None, with no error_delay sleep after it.
C9_TransportErrorReturnsNone ==
    \A k \in 1..Len(attemptLog) :
        attemptLog[k] = TransportError
            => /\ k = Len(attemptLog)
               /\ fpc # "request"
               /\ content = None
               /\ ~Last(fetchResults)
               /\ callSleeps = k - 1

C9_Witness ==
    /\ FetchReturned
    /\ attemptLog = <<BadStatus, TransportError>>

\* ---------------------------------------------------- claims on the converter

\* The extracted lists that were written to the file.
Written == Value(get_parsed_content(content))
\* Position of the first written row with the same word as row k.
FirstRowOf(k) ==
    CHOOSE j \in 1..k :
        /\ Written.words[j] = Written.words[k]
        /\ \A h \in 1..(j - 1) : Written.words[h] # Written.words[k]

\* C5: after save_parsed_content with the default delimiter and
\* populate_words from an empty dict, every written word is a key of the dict
\* and the parts of speech stored for it are the string written in its first
\* row.
C5_AppendLoadLossless ==
    (lpc = "reported" /\ delimiter = Comma)
        => \A k \in 1..Len(Written.words) :
            /\ dict_has(words, Written.words[k])
            /\ words[dict_index(words, Written.words[k])].parts_of_speech
                   = Written.parts_of_speech[FirstRowOf(k)]

\* The rows read so far, and the well-formed ones among them.
RowsRead == SubSeq(rows, 1, row_index - 1)
IsWellFormed(row) == Len(row) = 4
GoodRowsRead == SelectSeq(RowsRead, IsWellFormed)
TextsRead == {GoodRowsRead[k][2] : k \in 1..Len(GoodRowsRead)}
RowsOfText(text) ==
    LET HasText(row) == row[2] = text
    IN  SelectSeq(GoodRowsRead, HasText)

\* C6: whatever rows populate_words has read, the dict holds exactly one
\* record per distinct text of the well-formed rows; the record's snippet is
\* the snippets of the rows with that text, in file order, joined by '|'; its
\* parts of speech are those found in the first of these rows alone.
C6_OneRecordPerTextSnippetsJoined ==
    lpc \in {"rows", "reported"}
        => /\ {words[k].text : k \in 1..Len(words)} = TextsRead
           /\ Len(words) = Cardinality(TextsRead)
           /\ \A k \in 1..Len(words) :
                LET mine == RowsOfText(words[k].text)
                IN  /\ words[k].snippet
                           = Join(Pipe, [j \in 1..Len(mine) |-> mine[j][3]])
                    /\ words[k].parts_of_speech
                           = clean_parts_of_speech(mine[1][4])

\* Three well-formed rows of one word have been merged; the later rows differ
\* from the first in snippet and in parts of speech.
C6_Witness ==
    /\ lpc = "reported"
    /\ Len(rows) = 3
    /\ \A k \in 1..3 : IsWellFormed(rows[k]) /\ rows[k][2] = Run
    /\ rows[1][3] # rows[2][3]
    /\ rows[1][4] # rows[2][4]
    /\ Len(words) = 1

\* C10: the three numbers populate_words reports are the number of keys of
\* the dict, the number of its records with an empty snippet and the number
\* of its records with empty parts of speech.
C10_ReportCountsTheDict ==
    lpc = "reported"
        => report = Some(
            <<Cardinality({words[k].text : k \in 1..Len(words)}),
              Cardinality({k \in 1..Len(words) : words[k].snippet = <<>>}),
              Cardinality({k \in 1..Len(words) :
                              words[k].parts_of_speech = <<>>})>>)

C10_Witness ==
    /\ lpc = "reported"
    /\ report = Some(<<2, 1, 0>>)
    /\ Len(rows) = 3

\* ------------------------------------------------ more claims on the crawl

IsPrefix(a, b) == Len(a) <= Len(b) /\ SubSeq(b, 1, Len(a)) = a

\* C11: the output file is append-only: what it held before a step of the
\* driver, the lines of an earlier run included, is a prefix of what it holds
\* after the step.
C11_LogAppendOnly == [][IsPrefix(log, log') /\ IsPrefix(log0, log')]_vars

\* Lines have been appended twice to a file that held a line of an earlier
\* run.
C11_Witness ==
    /\ log0 = <<OldLine>>
    /\ Len(saveCalls) = 2
    /\ Len(log) > 3

\* The first page of a crawl has been fetched: one result item whose snippet
\* is any text of at most MaxText characters, white space and double quotes
\* included. The crawl goes on from there.
TextChars == {" ", "\n", "a", "\""}
Texts == UNION {[1..n -> TextChars] : n \in 0..MaxText}

InitExtract ==
    /\ starting_page = 1
    /\ max_pages = 1
    /\ max_retries = 1
    /\ delimiter = Comma
    /\ pc = "loop"
    /\ current_page = starting_page
    /\ i = 0
    /\ content \in {Some(<<Full(Run, text, PsVerb)>>) : text \in Texts}
    /\ log = <<>>
    /\ log0 = log
    /\ fpc = "returned"
    /\ frames = <<>>
    /\ fetchCalls = <<starting_page>>
    /\ fetchResults = <<TRUE>>
    /\ fetched = <<content>>
    /\ attemptLog = <<Ok>>
    /\ callSleeps = 0
    /\ requestSleeps = 0
    /\ saveCalls = <<>>
    /\ lpc = "off"
    /\ rows = <<>>
    /\ row_index = 0
    /\ words = <<>>
    /\ report = None

NextExtract ==
    \/ LoopBody
    \/ Request
    \/ LoopExit

SpecExtract == InitExtract /\ [][NextExtract]_vars

\* The texts of the div.snippet elements of the fetched page, in page order.
SnippetTexts ==
    LET found == SelectSeq(Value(content), HasSnippet)
    IN  [k \in 1..Len(found) |-> Value(found[k].snippet)]

\* inner is text without the white space at its two ends and with every
\* double quote replaced by a single quote.
IsNormalized(inner, text) ==
    \E lo \in 1..(Len(text) + 1) :
        /\ \A k \in 1..(lo - 1) : text[k] \in Whitespace
        /\ \A k \in (lo + Len(inner))..Len(text) : text[k] \in Whitespace
        /\ lo + Len(inner) - 1 <= Len(text)
        /\ inner # <<>> => /\ text[lo] \notin Whitespace
                           /\ text[lo + Len(inner) - 1] \notin Whitespace
        /\ \A k \in 1..Len(inner) :
             inner[k] = IF text[lo + k - 1] = "\"" THEN "'"
                        ELSE text[lo + k - 1]

\* C12: every snippet get_parsed_content returns begins and ends with a
\* double quote, holds no other double quote, and between the two is the
\* stripped snippet text with each double quote replaced by a single quote.
C12_SnippetsQuoted ==
    (content # None /\ get_parsed_content(content) # None)
        => LET snippets == Value(get_parsed_content(content)).snippets
           IN  /\ Len(snippets) = Len(SnippetTexts)
               /\ \A n \in 1..Len(snippets) :
                    LET s == snippets[n]
                    IN  /\ Len(s) >= 2
                        /\ s[1] = "\""
                        /\ s[Len(s)] = "\""
                        /\ \A k \in 2..(Len(s) - 1) : s[k] # "\""
                        /\ IsNormalized(SubSeq(s, 2, Len(s) - 1),
                                        SnippetTexts[n])

\* A snippet with white space at both ends and a double quote inside has
\* been extracted and written to the output file.
C12_Witness ==
    /\ SnippetTexts = << <<" ", "a", "\"", "\n">> >>
    /\ Value(get_parsed_content(content)).snippets = << <<"\"", "a", "'", "\"">> >>
    /\ log = <<format_line(1, Run, <<"\"", "a", "'", "\"">>, PsVerb, Comma)>>

C14_ConsecutivePagesOneSleepEach ==
    /\ \A k \in 1..Len(fetchCalls) : fetchCalls[k] = starting_page + k - 1
    /\ requestSleeps = IF fetchCalls = <<>> THEN 0 ELSE Len(fetchCalls) - 1

\* Three calls after a page that was saved and a page whose extraction was
\* rejected or empty.
C14_Witness ==
    /\ starting_page = 2
    /\ fetchCalls = <<2, 3, 4>>
    /\ requestSleeps = 2
    /\ Len(fetched) = 3
    /\ saveCalls = <<2>>
    /\ fetched[2] # None
    /\ fetched[3] = None

Handled == 1..(IF pc = "crashed" THEN i + 1 ELSE i)

\* The number of lines of the log that begin with the page number and the
\* delimiter, the old lines left out.
RECURSIVE LinesTagged(_, _)
LinesTagged(page, k) ==
    IF k <= Len(log0) THEN 0
    ELSE LET tag == IntToStr(page) \o delimiter
             line == log[k]
         IN  (IF Len(line) >= Len(tag) /\ SubSeq(line, 1, Len(tag)) = tag
              THEN 1 ELSE 0) + LinesTagged(page, k - 1)

\* C15: saving never fails, and every handled page whose extraction result
\* is not None has exactly one log line per extracted word, each beginning
\* with the page number its fetch_content call was given.
C15_OneLinePerWord ==
    /\ pc # "crashed"
    /\ \A k \in Handled :
          get_parsed_content(fetched[k]) # None
            => LinesTagged(fetchCalls[k], Len(log))
                 = Len(Value(get_parsed_content(fetched[k])).words)

\* The counts of words, snippets and parts of speech extracted from a fetched
\* page are not all the same.
Malformed(c) ==
    /\ c # None
    /\ \/ Len(all_words(Value(c))) # Len(all_snippets(Value(c)))
       \/ Len(all_snippets(Value(c))) # Len(all_parts_of_speech(Value(c)))

\* C16: no run fails, and for every handled page whose extracted words,
\* snippets and parts of speech differ in number, save_parsed_content was not
\* called and no line carries its page number.
C16_MalformedPageSkipped ==
    /\ pc # "crashed"
    /\ \A k \in Handled :
          Malformed(fetched[k])
            => /\ \A n \in 1..Len(saveCalls) : saveCalls[n] # fetchCalls[k]
               /\ LinesTagged(fetchCalls[k], Len(log)) = 0

\* ------------------------------------------- more claims on the converter

\* The dict populate_words builds from an empty dict by handling the given
\* rows in order.
RECURSIVE LoadOf(_)
LoadOf(rs) ==
    IF rs = <<>> THEN <<>>
    ELSE populate_row(LoadOf(SubSeq(rs, 1, Len(rs) - 1)), rs[Len(rs)])

\* C18: handling a row whose field count is not 4 leaves the dict as it was
\* and moves on to the next row; and at every point of the load the dict is
\* the one the well-formed rows read so far give on their own.
C18_BadRowDropped ==
    /\ [][(lpc = "rows" /\ row_index <= Len(rows)
            /\ ~IsWellFormed(rows[row_index]))
          => /\ words' = words
             /\ row_index' = row_index + 1
             /\ lpc' = "rows"]_vars
    /\ [](lpc \in {"rows", "reported"} => words = LoadOf(GoodRowsRead))

\* A row of five fields stood between two well-formed rows of one word: the
\* load went on to the end and the word's record holds both snippets.
C18_Witness ==
    /\ lpc = "reported"
    /\ Len(rows) = 3
    /\ IsWellFormed(rows[1])
    /\ Len(rows[2]) = 5
    /\ IsWellFormed(rows[3])
    /\ rows[1][2] = rows[3][2]
    /\ rows[2][2] # rows[1][2]
    /\ Len(words) = 1
    /\ words[1].snippet = rows[1][3] \o Pipe \o rows[3][3]

\* C19: when read_file has reported, its output holds at most one Word per
\* text, and the total it reports is the number of distinct texts among the
\* well-formed rows.
C19_LegacyOneWordPerText ==
    lpc = "legacy_reported"
        => /\ \A a, b \in 1..Len(words) :
                words[a].text = words[b].text => a = b
           /\ Value(report)[1] = Cardinality(TextsRead)

\* C20: a run whose first fetch succeeded stops only by leaving the loop
\* after max_pages iterations of its body.
C20_LoopRunsMaxPagesTimes ==
    (pc \in {"done", "crashed"} /\ fetched # <<>> /\ fetched[1] # None)
        => pc = "done" /\ i = max_pages

\* C21: when the run has ended, every page that was fetched and whose three
\* extracted lists have one length was saved: the log holds one line per
\* word of it, tagged with its page number. This
\* includes the page fetched last. Stated for runs of one iteration or more.
C21_NoFetchedPageDiscarded ==
    (pc = "done" /\ max_pages >= 1)
        => \A k \in 1..Len(fetched) :
            (fetched[k] # None /\ ~Malformed(fetched[k]))
              => LinesTagged(fetchCalls[k], Len(log))
                     = Len(all_words(Value(fetched[k])))

\* The line save_parsed_content writes for a result item that has all three
\* elements.
LineOfItem(page, item) ==
    format_line(page, Strip(Value(item.hw)),
                quote_snippet(Value(item.snippet)), Strip(Value(item.ps)),
                delimiter)

\* C22: every line appended for a page whose three extracted lists have one
\* length holds the word, the snippet and the parts of speech of one and the
\* same result item of that page.
C22_LineFromOneItem ==
    \A k \in Handled :
        (fetched[k] # None /\ ~Malformed(fetched[k]))
          => \A n \in (Len(log0) + 1)..Len(log) :
                LET tag == IntToStr(fetchCalls[k]) \o delimiter
                    items == Value(fetched[k])
                IN  (Len(log[n]) >= Len(tag)
                        /\ SubSeq(log[n], 1, Len(tag)) = tag)
                      => \E j \in 1..Len(items) :
                            /\ HasWord(items[j])
                            /\ HasSnippet(items[j])
                            /\ HasPs(items[j])
                            /\ log[n] = LineOfItem(fetchCalls[k], items[j])

\* The texts of the well-formed rows all of whose rows have an empty snippet.
TextsWithoutSnippet ==
    {t \in TextsRead :
        \A j \in 1..Len(RowsOfText(t)) : RowsOfText(t)[j][3] = <<>>}

\* C23: the 'without snippets' number populate_words reports is the number
\* of distinct words all of whose rows have an empty snippet.
C23_WithoutSnippetsCount ==
    lpc = "reported"
        => Value(report)[2] = Cardinality(TextsWithoutSnippet)

\* The rows without every row that repeats an earlier one.
RECURSIVE Dedup(_)
Dedup(rs) ==
    IF rs = <<>> THEN <<>>
    ELSE LET before == SubSeq(rs, 1, Len(rs) - 1)
             last == rs[Len(rs)]
         IN  IF \E j \in 1..Len(before) : before[j] = last
             THEN Dedup(before)
             ELSE Append(Dedup(before), last)

\* C24: the dict populate_words builds from a log is the one it builds from
\* the same log with every repeated row kept once.
C24_RepeatedRowsIdempotent ==
    lpc = "reported" => words = LoadOf(Dedup(rows))

====
